---- MODULE Spec2Model ----
(***************************************************************************)
(* A model of convert_pdfs.py: the batch conversion of the PDF files of    *)
(* one directory to Markdown, with the images of every page extracted to   *)
(* a per-document directory.                                               *)
(*                                                                         *)
(* The PDF library (fitz) and the file system are the environment.  What   *)
(* they answer is part of the input: a document says how many pages it     *)
(* has, what text and which images each page holds, which images cannot be *)
(* extracted, and at which library or file-system call, if any, an         *)
(* exception is raised.  The same input answers the same way on a second   *)
(* run of the program.                                                     *)
(*                                                                         *)
(* A PDF file is named by a number f, standing for the path "<f>.pdf";     *)
(* the order of the numbers is the lexicographic order of the names, and   *)
(* f is also the stem of the file.                                         *)
(***************************************************************************)
EXTENDS Integers, Sequences, FiniteSets, TLC

\* Bounds of the model.
MaxFiles == 2   \* PDF files in the input directory
MaxPages == 2   \* pages of a document
MaxImages == 2  \* embedded images of a document, over all its pages

Names == 1..MaxFiles

(***************************************************************************)
(* Page text.  A text is what text.split('\n') returns: a non-empty        *)
(* sequence of lines, each a sequence of characters.                       *)
(***************************************************************************)
EmptyText == << <<>> >>
BlankText == << <<" ">>, <<>> >>
SomeText == << <<" ", "a">>, <<>>, <<"b", " ">> >>
\* the texts of the pages of an arbitrary document
Texts == {BlankText, SomeText}

RECURSIVE LStrip(_)
LStrip(line) ==
  IF line # <<>> /\ Head(line) = " " THEN LStrip(Tail(line)) ELSE line

RECURSIVE RStrip(_)
RStrip(line) ==
  IF line # <<>> /\ line[Len(line)] = " "
  THEN RStrip(SubSeq(line, 1, Len(line) - 1))
  ELSE line

\* str.strip() of one line
Strip(line) == RStrip(LStrip(line))

NonEmptyLine(line) == line # <<>>

\* A faulty variant of HasText: the heading is emitted whatever the text is.
HasTextAlways(text) == TRUE

\* text.strip() is truthy: newlines are whitespace, so the text strips to
\* something exactly when one of its lines does.
HasText(text) == \E k \in 1..Len(text) : Strip(text[k]) # <<>>

\* the lines of the text, each stripped, the empty ones dropped
ProcessedLines(text) ==
  SelectSeq([k \in 1..Len(text) |-> Strip(text[k])], NonEmptyLine)

(***************************************************************************)
(* Markdown fragments: the strings appended to markdown_content.           *)
(***************************************************************************)
Fragment(kind, n, lines, refs) ==
  [kind |-> kind, n |-> n, lines |-> lines, refs |-> refs]

\* "# <Title>\n", "*Converted from: <name>*\n", "---\n"
TitleBlock(pdf_name) ==
  << Fragment("title", pdf_name, <<>>, <<>>),
     Fragment("source", pdf_name, <<>>, <<>>),
     Fragment("rule", 0, <<>>, <<>>) >>

\* A faulty variant of PageHeading: the heading carries the 0-based page index.
PageHeadingZeroBased(page_num) == Fragment("page", page_num, <<>>, <<>>)

\* "\n## Page <page_num + 1>\n"
PageHeading(page_num) == Fragment("page", page_num + 1, <<>>, <<>>)

Newline == Fragment("nl", 0, <<>>, <<>>)

\* the fragments a page's text adds
TextSection(text, page_num) ==
  IF HasText(text)
  THEN << PageHeading(page_num),
          Fragment("text", 0, ProcessedLines(text), <<>>),
          Newline >>
  ELSE <<>>

\* the fragments a page's image references add
ImageSection(image_refs, page_num) ==
  IF image_refs # <<>>
  THEN << Fragment("imghead", page_num + 1, <<>>, <<>>),
          Fragment("imgs", 0, <<>>, image_refs),
          Newline >>
  ELSE <<>>

(***************************************************************************)
(* Images.  An image file images/<pdf_name>/page<page>_img<idx>.<ext> and  *)
(* the Markdown reference to it are the same record.                       *)
(***************************************************************************)
\* A faulty variant of ImageFile: the file name carries the 0-based page index.
ImageFileZeroBased(pdf_name, page_num, img_idx, image_ext) ==
  [stem |-> pdf_name, page |-> page_num, idx |-> img_idx, ext |-> image_ext]

\* A faulty variant of ImageFile: the images of all documents share one directory.
ImageFileNoSubdir(pdf_name, page_num, img_idx, image_ext) ==
  [stem |-> 0, page |-> page_num + 1, idx |-> img_idx, ext |-> image_ext]

ImageFile(pdf_name, page_num, img_idx, image_ext) ==
  [stem |-> pdf_name, page |-> page_num + 1, idx |-> img_idx, ext |-> image_ext]

Message(msg, file, page, img) ==
  [msg |-> msg, file |-> file, page |-> page, img |-> img]

NoImages == [refs |-> <<>>, files |-> {}, warns |-> <<>>]

\* A faulty variant of OnImageFailure: the first failed image ends the loop.
OnImageFailureStop(rest, page_num, img_idx) ==
  [refs |-> <<>>, files |-> {},
   warns |-> <<Message("warning", 0, page_num + 1, img_idx)>>]

\* the except branch of the image loop: a warning, and on to the next image
OnImageFailure(rest, page_num, img_idx) ==
  [refs |-> rest.refs, files |-> rest.files,
   warns |-> <<Message("warning", 0, page_num + 1, img_idx)>> \o rest.warns]

\* the for loop of extract_images, from image img_idx (1-based) on
RECURSIVE ExtractLoop(_, _, _, _)
ExtractLoop(image_list, img_idx, pdf_name, page_num) ==
  IF img_idx > Len(image_list) THEN NoImages
  ELSE LET img == image_list[img_idx]
           rest == ExtractLoop(image_list, img_idx + 1, pdf_name, page_num)
           file == ImageFile(pdf_name, page_num, img_idx, img.ext)
       IN  IF img.ok
           THEN [refs |-> <<file>> \o rest.refs,
                 files |-> {file} \cup rest.files,
                 warns |-> rest.warns]
           ELSE OnImageFailure(rest, page_num, img_idx)

Fault(kind, page) == [kind |-> kind, page |-> page]
NoFault == Fault("none", 0)

\* extract_images on page page_num (0-based) of document doc: what it
\* returns and writes, or that it raised (get_images or mkdir failed)
extract_images(doc, pdf_name, page_num) ==
  LET image_list == doc.pages[page_num + 1].images
      out == ExtractLoop(image_list, 1, pdf_name, page_num)
  IN  IF doc.fault = Fault("list", page_num + 1)
      THEN [raised |-> TRUE, mkdir |-> FALSE, refs |-> <<>>, files |-> {}, warns |-> <<>>]
      ELSE IF image_list = <<>>
      THEN [raised |-> FALSE, mkdir |-> FALSE, refs |-> <<>>, files |-> {}, warns |-> <<>>]
      ELSE IF doc.fault = Fault("mkdir", page_num + 1)
      THEN [raised |-> TRUE, mkdir |-> FALSE, refs |-> <<>>, files |-> {}, warns |-> <<>>]
      ELSE [raised |-> FALSE, mkdir |-> TRUE, refs |-> out.refs,
            files |-> out.files, warns |-> out.warns]

(***************************************************************************)
(* sorted(): insertion sort of a sequence of file names.                   *)
(***************************************************************************)
RECURSIVE Insert(_, _)
Insert(x, s) ==
  IF s = <<>> THEN <<x>>
  ELSE IF x <= Head(s) THEN <<x>> \o s
  ELSE <<Head(s)>> \o Insert(x, Tail(s))

RECURSIVE InsertionSort(_)
InsertionSort(s) ==
  IF s = <<>> THEN <<>> ELSE Insert(Head(s), InsertionSort(Tail(s)))

\* A faulty variant of sorted: the files are taken in the order glob yields them.
unsorted(s) == s

sorted(s) == InsertionSort(s)

\* the orders in which glob may yield the files of set S
GlobOrders(S) ==
  {s \in [1..Cardinality(S) -> S] : \A a, b \in 1..Cardinality(S) : a # b => s[a] # s[b]}

(***************************************************************************)
(* The input: the PDF files of the input directory.                        *)
(*                                                                         *)
(* A document is [pages, fault].  A page is [text, images]; an image is    *)
(* [ok, ext]: ok says whether extract_image and the write of the bytes     *)
(* succeed, ext is the extension the library detects.  The fault names the *)
(* call of convert_pdf_to_markdown that raises for this document:          *)
(*   "open"  fitz.open                            (line 54)                *)
(*   "text"  page.get_text of page fault.page     (line 65)                *)
(*   "list"  page.get_images of that page         (line 20)                *)
(*   "mkdir" pdf_images_dir.mkdir on that page    (line 26)                *)
(*   "write" open(output_path, "w")               (line 93)                *)
(***************************************************************************)
ImagePool == {[ok |-> TRUE, ext |-> "png"], [ok |-> FALSE, ext |-> "none"]}

ImageLists(budget) == UNION {[1..k -> ImagePool] : k \in 0..budget}

\* the page sequences of length n holding at most budget images in all
RECURSIVE PageLists(_, _)
PageLists(n, budget) ==
  IF n = 0 THEN {<<>>}
  ELSE UNION {
         {<<[text |-> t, images |-> imgs]>> \o rest :
            rest \in PageLists(n - 1, budget - Len(imgs))} :
         t \in Texts, imgs \in ImageLists(budget)}

Faults(pages) ==
  {NoFault, Fault("open", 0), Fault("write", 0)}
    \cup {Fault(k, p) : k \in {"text", "list"}, p \in 1..Len(pages)}
    \cup {Fault("mkdir", p) : p \in {q \in 1..Len(pages) : pages[q].images # <<>>}}

DocSet ==
  UNION {
    UNION {{[pages |-> ps, fault |-> ft] : ft \in Faults(ps)} : ps \in PageLists(n, MaxImages)} :
    n \in 0..MaxPages}

\* Reference documents for the batches of several files.
PngImage == [ok |-> TRUE, ext |-> "png"]
BadImage == [ok |-> FALSE, ext |-> "none"]
SoundPage == [text |-> SomeText, images |-> <<PngImage>>]
SoundPdf == [pages |-> <<SoundPage>>, fault |-> NoFault]
CorruptPdf == [pages |-> <<>>, fault |-> Fault("open", 0)]
TextFailsPdf == [pages |-> <<SoundPage, SoundPage>>, fault |-> Fault("text", 2)]
ListFailsPdf == [pages |-> <<SoundPage>>, fault |-> Fault("list", 1)]
MkdirFailsPdf == [pages |-> <<SoundPage>>, fault |-> Fault("mkdir", 1)]
WriteFailsPdf == [pages |-> <<SoundPage>>, fault |-> Fault("write", 0)]
JpegImage == [ok |-> TRUE, ext |-> "jpeg"]
ScanPage == [text |-> EmptyText, images |-> <<BadImage, JpegImage>>]
ScanPdf == [pages |-> <<ScanPage>>, fault |-> NoFault]
Catalogue ==
  {SoundPdf, CorruptPdf, TextFailsPdf, ListFailsPdf, MkdirFailsPdf, WriteFailsPdf, ScanPdf}

(***************************************************************************)
(* State.                                                                  *)
(***************************************************************************)
VARIABLES
  pdf_dir,           \* input: the PDF files of docs/nfse-nacional, name -> document
  mkdir_ok,          \* input: whether docs/markdown and its images/ can be created
  pc,                \* where main is
  second_run,        \* whether this is the second run of the program
  out_dirs,          \* docs/markdown and docs/markdown/images exist
  pdf_files,         \* main: the sorted list of PDF paths
  file_idx,          \* main: 1-based position of the for loop in pdf_files
  page_num,          \* convert_pdf_to_markdown: pages done (the next 0-based index)
  markdown_content,  \* convert_pdf_to_markdown: the fragments so far
  image_refs,        \* convert_pdf_to_markdown: what extract_images returned last
  open_docs,         \* documents opened by fitz.open and not closed by doc.close()
  md_files,          \* docs/markdown/<stem>.md: stem -> content
  img_files,         \* the files under docs/markdown/images/<stem>/
  img_dirs,          \* the directories docs/markdown/images/<stem>
  log,               \* what this run printed
  before,            \* md_files and img_files when the current conversion began
  prev_md            \* md_files when the first run ended

vars ==
  << pdf_dir, mkdir_ok, pc, second_run, out_dirs, pdf_files, file_idx, page_num,
     markdown_content, image_refs, open_docs, md_files, img_files, img_dirs, log,
     before, prev_md >>

input == << pdf_dir, mkdir_ok >>
files == << md_files, img_files, img_dirs >>
locals == << page_num, markdown_content, image_refs >>

NoFiles == [f \in {} |-> <<>>]

Fresh ==
  /\ pc = "start"
  /\ second_run = FALSE
  /\ out_dirs = FALSE
  /\ pdf_files = <<>>
  /\ file_idx = 0
  /\ page_num = 0
  /\ markdown_content = <<>>
  /\ image_refs = <<>>
  /\ open_docs = {}
  /\ md_files = NoFiles
  /\ img_files = {}
  /\ img_dirs = {}
  /\ log = <<>>
  /\ before = [md |-> NoFiles, img |-> {}]
  /\ prev_md = NoFiles

\* a directory of up to MaxFiles reference documents
InitBatch ==
  /\ \E S \in SUBSET Names : pdf_dir \in [S -> Catalogue]
  /\ mkdir_ok \in BOOLEAN
  /\ Fresh

\* a directory holding one document, any within the bounds
InitDocument ==
  /\ \E d \in DocSet : pdf_dir = [f \in {1} |-> d]
  /\ mkdir_ok = TRUE
  /\ Fresh

Init == InitBatch \/ InitDocument

(***************************************************************************)
(* main                                                                    *)
(***************************************************************************)
\* output_dir.mkdir, images_dir.mkdir: outside any try
CreateDirs ==
  /\ pc = "start"
  /\ IF mkdir_ok
     THEN /\ out_dirs' = TRUE
          /\ pc' = "discover"
     ELSE /\ pc' = "raised"
          /\ UNCHANGED out_dirs
  /\ UNCHANGED << input, second_run, pdf_files, file_idx, locals, open_docs, files,
                  log, before, prev_md >>

\* A faulty variant of Discover: no early return on an empty list.
DiscoverNoReturn ==
  /\ pc = "discover"
  /\ \E order \in GlobOrders(DOMAIN pdf_dir) :
       /\ pdf_files' = sorted(order)
       /\ log' = log \o <<Message("found", Len(order), 0, 0)>>
       /\ pc' = "loop"
       /\ file_idx' = 1
  /\ UNCHANGED << input, second_run, out_dirs, locals, open_docs, files, before, prev_md >>

\* pdf_files = sorted(pdf_dir.glob("*.pdf")); the early return on none
Discover ==
  /\ pc = "discover"
  /\ \E order \in GlobOrders(DOMAIN pdf_dir) :
       /\ pdf_files' = sorted(order)
       /\ IF pdf_files' = <<>>
          THEN /\ log' = log \o <<Message("nofiles", 0, 0, 0)>>
               /\ pc' = "done"
               /\ UNCHANGED file_idx
          ELSE /\ log' = log \o <<Message("found", Len(pdf_files'), 0, 0)>>
               /\ pc' = "loop"
               /\ file_idx' = 1
  /\ UNCHANGED << input, second_run, out_dirs, locals, open_docs, files, before, prev_md >>

\* the loop takes the next file and calls convert_pdf_to_markdown, which
\* prints "Converting", opens the document and starts the content
OpenDocument ==
  /\ pc = "loop"
  /\ file_idx <= Len(pdf_files)
  /\ LET pdf_name == pdf_files[file_idx]
         doc == pdf_dir[pdf_name]
     IN  /\ log' = log \o <<Message("converting", pdf_name, 0, 0)>>
         /\ before' = [md |-> md_files, img |-> img_files]
         /\ page_num' = 0
         /\ image_refs' = <<>>
         /\ IF doc.fault = Fault("open", 0)
            THEN /\ pc' = "except"
                 /\ markdown_content' = <<>>
                 /\ UNCHANGED open_docs
            ELSE /\ pc' = "page"
                 /\ open_docs' = open_docs \cup {pdf_name}
                 /\ markdown_content' = TitleBlock(pdf_name)
  /\ UNCHANGED << input, second_run, out_dirs, pdf_files, file_idx, files, prev_md >>

\* one iteration of the page loop: the text, then the images
ConvertPage ==
  /\ pc = "page"
  /\ LET pdf_name == pdf_files[file_idx]
         doc == pdf_dir[pdf_name]
     IN  /\ page_num < Len(doc.pages)
         /\ IF doc.fault = Fault("text", page_num + 1)
            THEN /\ pc' = "except"
                 /\ UNCHANGED << locals, files, log >>
            ELSE LET text == doc.pages[page_num + 1].text
                     got == extract_images(doc, pdf_name, page_num)
                     with_text == markdown_content \o TextSection(text, page_num)
                 IN  IF got.raised
                     THEN /\ pc' = "except"
                          /\ markdown_content' = with_text
                          /\ UNCHANGED << page_num, image_refs, files, log >>
                     ELSE /\ pc' = "page"
                          /\ image_refs' = got.refs
                          /\ markdown_content' = with_text \o ImageSection(got.refs, page_num)
                          /\ page_num' = page_num + 1
                          /\ img_dirs' = IF got.mkdir THEN img_dirs \cup {pdf_name} ELSE img_dirs
                          /\ img_files' = img_files \cup got.files
                          /\ log' = log \o got.warns
                          /\ UNCHANGED md_files
  /\ UNCHANGED << input, second_run, out_dirs, pdf_files, file_idx, open_docs, before, prev_md >>

\* doc.close(), after the last page
CloseDocument ==
  /\ pc = "page"
  /\ page_num = Len(pdf_dir[pdf_files[file_idx]].pages)
  /\ open_docs' = open_docs \ {pdf_files[file_idx]}
  /\ pc' = "write"
  /\ UNCHANGED << input, second_run, out_dirs, pdf_files, file_idx, locals, files, log,
                  before, prev_md >>

\* A faulty variant of WriteFile: the content is appended to what the file holds.
AppendFile(md, path, content) ==
  [f \in DOMAIN md \cup {path} |->
     IF f = path
     THEN (IF path \in DOMAIN md THEN md[path] ELSE <<>>) \o content
     ELSE md[f]]

\* open(path, "w") and write: the file holds the content and nothing else
WriteFile(md, path, content) ==
  [f \in DOMAIN md \cup {path} |-> IF f = path THEN content ELSE md[f]]

\* output_dir / f"{pdf_name}.md"
OutputPath(pdf_name) == pdf_name

\* the Markdown file is written and "Created" printed; the call returns
WriteMarkdown ==
  /\ pc = "write"
  /\ LET pdf_name == pdf_files[file_idx]
     IN  IF pdf_dir[pdf_name].fault = Fault("write", 0)
         THEN /\ pc' = "except"
              /\ UNCHANGED << file_idx, md_files, log >>
         ELSE /\ md_files' = WriteFile(md_files, OutputPath(pdf_name), markdown_content)
              /\ log' = log \o <<Message("created", pdf_name, 0, 0)>>
              /\ file_idx' = file_idx + 1
              /\ pc' = "loop"
  /\ UNCHANGED << input, second_run, out_dirs, pdf_files, locals, open_docs, img_files,
                  img_dirs, before, prev_md >>

\* A faulty variant of Except: the handler lets the exception out of main.
ExceptReraise ==
  /\ pc = "except"
  /\ pc' = "raised"
  /\ UNCHANGED << input, second_run, out_dirs, pdf_files, file_idx, locals, open_docs,
                  files, log, before, prev_md >>

\* except Exception: the error is printed and the loop goes on
Except ==
  /\ pc = "except"
  /\ log' = log \o <<Message("error", pdf_files[file_idx], 0, 0)>>
  /\ file_idx' = file_idx + 1
  /\ pc' = "loop"
  /\ UNCHANGED << input, second_run, out_dirs, pdf_files, locals, open_docs, files,
                  before, prev_md >>

\* after the last file: "Conversion complete!" and the two directories
Summary ==
  /\ pc = "loop"
  /\ file_idx > Len(pdf_files)
  /\ log' = log \o <<Message("complete", 0, 0, 0)>>
  /\ pc' = "done"
  /\ UNCHANGED << input, second_run, out_dirs, pdf_files, file_idx, locals, open_docs,
                  files, before, prev_md >>

\* the program is run again on the same input: a new process, the files
\* of the first run still on disk
Rerun ==
  /\ pc \in {"done", "raised"}
  /\ second_run = FALSE
  /\ second_run' = TRUE
  /\ prev_md' = md_files
  /\ pc' = "start"
  /\ pdf_files' = <<>>
  /\ file_idx' = 0
  /\ page_num' = 0
  /\ markdown_content' = <<>>
  /\ image_refs' = <<>>
  /\ open_docs' = {}
  /\ log' = <<>>
  /\ UNCHANGED << input, out_dirs, files, before >>

Next ==
  \/ CreateDirs
  \/ Discover
  \/ OpenDocument
  \/ ConvertPage
  \/ CloseDocument
  \/ WriteMarkdown
  \/ Except
  \/ Summary
  \/ Rerun

Spec == Init /\ [][Next]_vars

(***************************************************************************)
(* Vocabulary of the properties.                                           *)
(***************************************************************************)
CurFile == pdf_files[file_idx]
CurDoc == pdf_dir[CurFile]

IsCall(m) == m.msg = "converting"

\* the files convert_pdf_to_markdown was called on in this run, in order
Called == LET c == SelectSeq(log, IsCall) IN [k \in 1..Len(c) |-> c[k].file]

Logged(msg, file) == \E k \in 1..Len(log) : log[k].msg = msg /\ log[k].file = file

\* the text holds a character that is not whitespace
Inked(text) == \E k \in 1..Len(text) : \E j \in 1..Len(text[k]) : text[k][j] # " "

AllPagesInked(doc) == \A p \in 1..Len(doc.pages) : Inked(doc.pages[p].text)
AllPagesBlank(doc) == \A p \in 1..Len(doc.pages) : ~Inked(doc.pages[p].text)

IsHeading(frag) == frag.kind = "page"

\* the numbers of the "## Page" headings of a Markdown content, in order
Headings(content) ==
  LET h == SelectSeq(content, IsHeading) IN [k \in 1..Len(h) |-> h[k].n]

\* extract_images has returned for page page_num (1-based) of CurDoc
PageDone == pc = "page" /\ page_num >= 1
DoneImages == CurDoc.pages[page_num].images

\* the 1-based positions in a page's image list of the extractable images
OkPositions(images) ==
  SelectSeq([k \in 1..Len(images) |-> k], LAMBDA k : images[k].ok)

(***************************************************************************)
(* C1.  The Batch Driver calls the Document Driver exactly once on each    *)
(* discovered file, in sorted filename order, and reaches its final        *)
(* summary, whichever conversions raise: the calls made so far are         *)
(* strictly increasing and skip no file of the directory, no exception of  *)
(* a conversion leaves main, and when main is done every file was called   *)
(* and the summary printed last.                                           *)
(***************************************************************************)
C1_BatchIsolation ==
  /\ \A a, b \in 1..Len(Called) : a < b => Called[a] < Called[b]
  /\ \A k \in 1..Len(Called) : \A f \in DOMAIN pdf_dir :
       f < Called[k] => \E j \in 1..k : Called[j] = f
  /\ pc = "raised" => Called = <<>>
  /\ (pc = "done" /\ DOMAIN pdf_dir # {}) =>
       /\ {Called[k] : k \in 1..Len(Called)} = DOMAIN pdf_dir
       /\ log[Len(log)].msg = "complete"

\* the first file's conversion raised, the second file was converted, and
\* the batch is complete
C1_Witness ==
  /\ pc = "done"
  /\ Logged("error", 1)
  /\ Logged("created", 2)
  /\ Called = <<1, 2>>

(***************************************************************************)
(* C2.  A written Markdown file of a PDF with N pages, each of non-empty   *)
(* text, holds exactly N "## Page" headings, numbered 1..N in ascending    *)
(* order, whatever images the pages hold and whether they extract.         *)
(***************************************************************************)
C2_HeadingPerPage ==
  \A f \in DOMAIN md_files :
    AllPagesInked(pdf_dir[f]) =>
      Headings(md_files[f]) = [k \in 1..Len(pdf_dir[f].pages) |-> k]

\* a written two-page document, all text, with an image that extracts and
\* one that does not
C2_Witness ==
  \E f \in DOMAIN md_files :
    /\ AllPagesInked(pdf_dir[f])
    /\ Len(pdf_dir[f].pages) >= 2
    /\ \E p, q \in 1..Len(pdf_dir[f].pages) :
         /\ \E k \in 1..Len(pdf_dir[f].pages[p].images) : pdf_dir[f].pages[p].images[k].ok
         /\ \E k \in 1..Len(pdf_dir[f].pages[q].images) : ~pdf_dir[f].pages[q].images[k].ok

(***************************************************************************)
(* C3, as claimed.  For a page with K extractable images, extract_images   *)
(* returns K references, to page<n>_img1 .. page<n>_imgK with the detected *)
(* extensions, all written to disk, also when other listed images fail.    *)
(***************************************************************************)
C3_AsClaimed ==
  PageDone =>
    LET good == SelectSeq(DoneImages, LAMBDA img : img.ok)
    IN  /\ Len(image_refs) = Len(good)
        /\ \A j \in 1..Len(good) :
             /\ image_refs[j] =
                  [stem |-> CurFile, page |-> page_num, idx |-> j, ext |-> good[j].ext]
             /\ image_refs[j] \in img_files

(***************************************************************************)
(* C3, amended.  For a page with K extractable images, extract_images      *)
(* returns K references, the j-th to page<n>_img<i> where i is the         *)
(* 1-based position in the page's image list of the j-th extractable       *)
(* image, with its detected extension, and all K files are on disk.        *)
(***************************************************************************)
C3_NumberedByListPosition ==
  PageDone =>
    LET pos == OkPositions(DoneImages)
    IN  /\ Len(image_refs) = Len(pos)
        /\ \A j \in 1..Len(pos) :
             /\ image_refs[j] =
                  [stem |-> CurFile, page |-> page_num, idx |-> pos[j],
                   ext |-> DoneImages[pos[j]].ext]
             /\ image_refs[j] \in img_files

\* extract_images returned for a page whose first image fails and whose
\* second image extracts
C3_Witness ==
  /\ PageDone
  /\ Len(DoneImages) = 2
  /\ ~DoneImages[1].ok
  /\ DoneImages[2].ok

(***************************************************************************)
(* C4, as claimed.  The Markdown file of a PDF whose pages all have empty  *)
(* or whitespace-only text holds the title block and nothing else.         *)
(***************************************************************************)
C4_AsClaimed ==
  \A f \in DOMAIN md_files :
    AllPagesBlank(pdf_dir[f]) => md_files[f] = TitleBlock(f)

(***************************************************************************)
(* C4, amended.  The Markdown file of a PDF whose pages all have empty or  *)
(* whitespace-only text holds no "## Page" heading and no text block: it   *)
(* is the title block followed only by the image sections of the pages     *)
(* that have an extractable image, and the title block alone when no page  *)
(* has one.                                                                *)
(***************************************************************************)
C4_BlankPagesNoHeading ==
  \A f \in DOMAIN md_files :
    AllPagesBlank(pdf_dir[f]) =>
      LET content == md_files[f]
          doc == pdf_dir[f]
      IN  /\ Len(content) >= 3
          /\ SubSeq(content, 1, 3) = TitleBlock(f)
          /\ \A k \in 4..Len(content) : content[k].kind \in {"imghead", "imgs", "nl"}
          /\ {content[k].n : k \in {j \in 4..Len(content) : content[j].kind = "imghead"}}
               = {p \in 1..Len(doc.pages) :
                    \E i \in 1..Len(doc.pages[p].images) : doc.pages[p].images[i].ok}

\* a written document of blank pages, one of them with an extractable image
C4_Witness ==
  \E f \in DOMAIN md_files :
    /\ AllPagesBlank(pdf_dir[f])
    /\ \E p \in 1..Len(pdf_dir[f].pages) :
         \E i \in 1..Len(pdf_dir[f].pages[p].images) : pdf_dir[f].pages[p].images[i].ok
    /\ \E k \in 1..Len(md_files[f]) : md_files[f][k].kind = "imghead"

C7_Idempotent ==
  (second_run /\ pc \in {"done", "raised"}) => md_files = prev_md

\* the second run is complete and wrote a Markdown file again
C7_Witness ==
  /\ second_run
  /\ pc = "done"
  /\ \E f \in DOMAIN md_files : Logged("created", f) /\ Len(md_files[f]) > 3

(***************************************************************************)
(* C8.  extract_images returns exactly one reference per image that was    *)
(* extracted and written, in the order of the page's image list: none for  *)
(* a failed image, and a failed image stops neither the later images nor   *)
(* the page nor the document.                                              *)
(***************************************************************************)
C8_ImageIsolation ==
  /\ PageDone =>
       /\ Len(image_refs) = Cardinality({k \in 1..Len(DoneImages) : DoneImages[k].ok})
       /\ \A j \in 1..Len(image_refs) :
            /\ image_refs[j].idx \in 1..Len(DoneImages)
            /\ DoneImages[image_refs[j].idx].ok
       /\ \A a, b \in 1..Len(image_refs) : a < b => image_refs[a].idx < image_refs[b].idx
  /\ pc = "except" => CurDoc.fault # NoFault

\* the second page's image was extracted after the first page's image failed
C8_Witness ==
  /\ PageDone
  /\ page_num = 2
  /\ \E k \in 1..Len(CurDoc.pages[1].images) : ~CurDoc.pages[1].images[k].ok
  /\ Len(image_refs) = 1

C10_AsClaimed ==
  /\ pc \in {"loop", "except", "done"} => open_docs = {}
  /\ Cardinality(open_docs) <= 1

====
